---- MODULE Spec2Model ----
(***************************************************************************)
(* A model of pyjacket/filetools/image/_image.py: slice arithmetic, the    *)
(* lazy ImageHandle (copy-on-index slicing, frame iteration), the TIFF     *)
(* handle specialisation and the imread dispatch.                          *)
(*                                                                         *)
(* Python values are represented as follows.                               *)
(*   None / int        an optional integer: <<>> is None, <<k>> is k       *)
(*   slice             [start, stop, step] of optional integers            *)
(*   list of slices    a sequence of slices, held in the heap `lists`      *)
(*                     under a list id, so that aliasing is observable     *)
(*   ndarray           [shape |-> <<n1,..>>, val |-> function from 0-based *)
(*                     index tuples to pixel values]                       *)
(*   call outcome      [ok |-> TRUE, value |-> v] or                       *)
(*                     [ok |-> FALSE, exc |-> name, at |-> raising place]  *)
(***************************************************************************)
EXTENDS Integers, Sequences, FiniteSets, TLC

VARIABLES handles, lists, last

vars == <<handles, lists, last>>

(***************************************************************************)
(* Bounds of the model.                                                    *)
(***************************************************************************)
\* slice_length is exercised on dimension lengths 0..MaxN
MaxN == 3
\* slice start/stop range over None and -MaxIdx..MaxIdx
MaxIdx == 4
\* slice steps range over None and -MaxStep..MaxStep
MaxStep == 3
\* at most MaxHandles handles are alive at once
MaxHandles == 2
\* in SpecRead, handles are indexed with tuples of at most MaxTuple slices
MaxTuple == 1
\* the dimensions of the files on disk
Frames == 2
Channels == 2
Height == 2
Width == 3

(***************************************************************************)
(* Optional integers and slices.                                           *)
(***************************************************************************)
None == <<>>

Some(k) == <<k>>

Max(a, b) == IF a >= b THEN a ELSE b

\* slice(start, stop, step)
Slice(start, stop, step) == [start |-> start, stop |-> stop, step |-> step]

\* slice(None, None, None), the full-range default
DefaultSlice == Slice(None, None, None)

\* Python's floor division a // b for b > 0
FloorDiv(a, b) == a \div b

\* slice.indices(n) of CPython for a slice with a nonzero step:
\* the <<start, stop, step>> the slice resolves to on a sequence of length n
indices(s, n) ==
    LET step  == IF s.step = None THEN 1 ELSE s.step[1]
        neg   == step < 0
        lower == IF neg THEN -1 ELSE 0
        upper == IF neg THEN n - 1 ELSE n
        clamp(v) == IF v < 0
                    THEN (IF v + n < lower THEN lower ELSE v + n)
                    ELSE (IF v > upper THEN upper ELSE v)
        start == IF s.start = None THEN (IF neg THEN upper ELSE lower)
                 ELSE clamp(s.start[1])
        stop  == IF s.stop = None THEN (IF neg THEN lower ELSE upper)
                 ELSE clamp(s.stop[1])
    IN <<start, stop, step>>

\* list(range(start, stop, step)) for a nonzero step, materialised index by index
RECURSIVE range(_, _, _)
range(start, stop, step) ==
    IF (step > 0 /\ start < stop) \/ (step < 0 /\ start > stop)
    THEN <<start>> \o range(start + step, stop, step)
    ELSE <<>>

\* the body of slice_length with the positive-step count off by one
slice_length_noround(s, n) ==
    LET r == indices(s, n)
        start == r[1]
        stop  == r[2]
        step  == r[3]
    IN IF step > 0
       THEN Max(0, FloorDiv(stop - start, step))
       ELSE Max(0, FloorDiv(start - stop - (step + 1), -step))

\* slice_length(s, n) for a slice with a nonzero step
slice_length(s, n) ==
    LET r == indices(s, n)
        start == r[1]
        stop  == r[2]
        step  == r[3]
    IN IF step > 0
       THEN Max(0, FloorDiv(stop - start + (step - 1), step))
       ELSE Max(0, FloorDiv(start - stop - (step + 1), -step))

\* the outcome of calling slice_length(s, n): indices() raises on a zero step
slice_length_call(s, n) ==
    IF s.step = Some(0)
    THEN [ok |-> FALSE, exc |-> "ValueError", at |-> "slice.indices"]
    ELSE [ok |-> TRUE, value |-> slice_length(s, n)]

OptIdx == {None} \cup {Some(k) : k \in -MaxIdx..MaxIdx}

OptStep == {None} \cup {Some(k) : k \in -MaxStep..MaxStep}

AllSlices == {Slice(a, b, c) : a \in OptIdx, b \in OptIdx, c \in OptStep}

(***************************************************************************)
(* Files on disk.  A path is the sequence of its '.'-separated parts, so   *)
(* that <<"stack", "tif">> is "stack.tif" and <<"noext">> has no '.'.      *)
(* A TIFF file is a sequence of planes (pages) of Height x Width pixels    *)
(* and the shape of its first series.                                      *)
(***************************************************************************)
Tif2D == <<"image", "tif">>

Tif3D == <<"stack", "tif">>

Tif4D == <<"hyperstack", "tif">>

Tiff3D == <<"stack", "tiff">>

Png2D == <<"image", "png">>

Bin == <<"x", "bin">>

NoExt == <<"noext">>

\* tifffile.TiffFile(filename).series[0].shape: the series' native axis order,
\* (y, x), (frames, y, x) or (frames, channel, y, x)
SeriesShape(filename) ==
    CASE filename \in {Tif2D, Png2D} -> <<Height, Width>>
      [] filename \in {Tif3D, Tiff3D} -> <<Frames, Height, Width>>
      [] filename = Tif4D -> <<Frames, Channels, Height, Width>>

\* the pixel at (y, x) of plane k: every pixel of a file is distinct
Pixel(k, y, x) == 100 * k + 10 * y + x

RECURSIVE IndexSet(_)
\* the 0-based index tuples of an array of the given shape
IndexSet(shape) ==
    IF shape = <<>> THEN {<<>>}
    ELSE {<<i>> \o r : i \in 0..(shape[1] - 1), r \in IndexSet(Tail(shape))}

RECURSIVE Product(_)
Product(shape) == IF shape = <<>> THEN 1 ELSE shape[1] * Product(Tail(shape))

Front(q) == SubSeq(q, 1, Len(q) - 1)

\* the number of pages of the series: every axis before (y, x)
NumPlanes(filename) ==
    LET s == SeriesShape(filename)
    IN Product(SubSeq(s, 1, Len(s) - 2))

\* page k of the file, decoded
Plane(filename, k) ==
    LET s == SeriesShape(filename)
        sh == SubSeq(s, Len(s) - 1, Len(s))
    IN [shape |-> sh, val |-> [idx \in IndexSet(sh) |-> Pixel(k, idx[1], idx[2])]]

\* TiffPageSeries.asarray(key=k): the series' pages form a list, indexed as
\* Python indexes a list
asarray(filename, key) ==
    LET P == NumPlanes(filename)
    IN IF key >= -P /\ key < P
       THEN [ok |-> TRUE, value |-> Plane(filename, key % P)]
       ELSE [ok |-> FALSE, exc |-> "IndexError", at |-> "asarray"]

\* np.stack(planes, axis=-1) of equally shaped arrays
stack(planes) ==
    LET sh == planes[1].shape \o <<Len(planes)>>
    IN [shape |-> sh,
        val |-> [idx \in IndexSet(sh) |->
                    planes[idx[Len(idx)] + 1].val[Front(idx)]]]

\* arr[tuple(ss)] for a tuple of slices no longer than arr's rank
ApplySlices(arr, ss) ==
    LET rank == Len(arr.shape)
        rng(k) == LET r == indices(ss[k], arr.shape[k])
                  IN range(r[1], r[2], r[3])
        sh == [k \in 1..rank |-> IF k <= Len(ss) THEN Len(rng(k)) ELSE arr.shape[k]]
    IN [shape |-> sh,
        val |-> [idx \in IndexSet(sh) |->
                    arr.val[[k \in 1..rank |->
                                IF k <= Len(ss) THEN rng(k)[idx[k] + 1] ELSE idx[k]]]]]

\* f with f[k] set to v, k a new or an old key (functions are built whole,
\* never by EXCEPT)
Put(f, k, v) == [x \in DOMAIN f \cup {k} |-> IF x = k THEN v ELSE f[x]]

(***************************************************************************)
(* The heap: handles maps the ids of the live handles to their fields,     *)
(* lists maps the ids of the live slice lists to their entries.            *)
(* Metadata is read at construction and never consulted by the operations  *)
(* modelled here; data is the series of the file, fixed by filename.       *)
(***************************************************************************)
Remove(f, k) == [x \in DOMAIN f \ {k} |-> f[x]]

Min(S) == CHOOSE x \in S : \A y \in S : x <= y

\* only lists some handle refers to stay alive
Collect(hs, ls) == [l \in {hs[h].slices : h \in DOMAIN hs} |-> ls[l]]

NewId(f) == Min((1..(Cardinality(DOMAIN f) + 1)) \ DOMAIN f)

\* TifImageHandle.ndim
ndim(h) == Len(SeriesShape(h.filename))

\* TifImageHandle.shape
shape(h) ==
    LET s == SeriesShape(h.filename)
    IN IF ndim(h) < 4 THEN s ELSE <<s[1], s[4], s[3], s[2]>>

\* ImageHandle.__init__: the heap after constructing a handle, and its id
init(hs, ls, filename, channel) ==
    LET hid == NewId(hs)
        lid == NewId(ls)
        h == [filename |-> filename,
              channel |-> IF channel = None \/ channel = Some(0) THEN 1 ELSE channel[1],
              slices |-> lid]
    IN [handles |-> Put(hs, hid, h),
        lists |-> Put(ls, lid, [k \in 1..ndim(h) |-> DefaultSlice]),
        id |-> hid]

\* ImageHandle.copy
copy(hs, ls, self) == init(hs, ls, hs[self].filename, Some(hs[self].channel))

\* __getitem__ with a slice: the heap after it, and the id of the new handle
getitem_slice(hs, ls, self, val) ==
    LET c == copy(hs, ls, self)
        lid == c.handles[c.id].slices
    IN [handles |-> c.handles,
        lists |-> Put(c.lists, lid, Put(c.lists[lid], 1, val)),
        res |-> [ok |-> TRUE, value |-> c.id]]

RECURSIVE assign_each_noskip(_, _, _)
\* the loop of __getitem__ without the test that skips default entries
assign_each_noskip(l, val, i) ==
    IF i >= Len(val) THEN [ok |-> TRUE, list |-> l]
    ELSE IF i < Len(l)
         THEN assign_each_noskip(Put(l, i + 1, val[i + 1]), val, i + 1)
         ELSE [ok |-> FALSE, list |-> l]

RECURSIVE assign_each_grow(_, _, _)
\* the loop of __getitem__ appending where an assignment is out of range
assign_each_grow(l, val, i) ==
    IF i >= Len(val) THEN [ok |-> TRUE, list |-> l]
    ELSE IF val[i + 1] # DefaultSlice
         THEN (IF i < Len(l)
               THEN assign_each_grow(Put(l, i + 1, val[i + 1]), val, i + 1)
               ELSE assign_each_grow(Append(l, val[i + 1]), val, i + 1))
         ELSE assign_each_grow(l, val, i + 1)

RECURSIVE assign_each(_, _, _)
\* the loop of __getitem__ over enumerate(val) from 0-based position i on:
\* the list after it, or ok = FALSE when an assignment is out of range
assign_each(l, val, i) ==
    IF i >= Len(val) THEN [ok |-> TRUE, list |-> l]
    ELSE IF val[i + 1] # DefaultSlice
         THEN (IF i < Len(l)
               THEN assign_each(Put(l, i + 1, val[i + 1]), val, i + 1)
               ELSE [ok |-> FALSE, list |-> l])
         ELSE assign_each(l, val, i + 1)

\* obj.slices = self.slices, without the copy: the parent's own list
slices_alias(c, self) == c.handles[self].slices

\* obj.slices = self.slices[:] : the id the copied list is stored under
\* (the list copy() made is garbage from here on, so its id is free)
slices_copy(c, self) == c.handles[c.id].slices

\* __getitem__ with a tuple of slices
getitem_tuple(hs, ls, self, val) ==
    LET c == copy(hs, ls, self)
        lid == slices_copy(c, self)
        obj == c.handles[c.id]
        hs1 == Put(c.handles, c.id,
                   [filename |-> obj.filename, channel |-> obj.channel,
                    slices |-> lid])
        ls1 == Put(c.lists, lid, ls[hs[self].slices])
        a == assign_each(ls1[lid], val, 0)
    IN IF ~a.ok
       THEN [handles |-> hs, lists |-> ls,
             res |-> [ok |-> FALSE, exc |-> "IndexError", at |-> "list assignment"]]
       ELSE [handles |-> hs1,
             lists |-> Collect(hs1, Put(ls1, lid, a.list)),
             res |-> [ok |-> TRUE, value |-> c.id]]

\* the entries of a handle's slices list
SlicesOf(h) == lists[handles[h].slices]

Live == DOMAIN handles

HasRoom == Cardinality(Live) < MaxHandles

(***************************************************************************)
(* Reading frames.                                                         *)
(***************************************************************************)
\* ImageHandle.slice_shape
slice_shape(h, sl) ==
    [k \in 1..Min({Len(sl), Len(shape(h))}) |-> slice_length(sl[k], shape(h)[k])]

\* the bound check of standard negative indexing, -N <= i < N
in_bound_std(i, N) == -N <= i /\ i < N

\* the bound check of TifImageHandle.get: TRUE when i is accepted
in_bound(i, N) == -N < i /\ i <= N

RECURSIVE decode(_, _, _, _)
\* [self.data.asarray(key=i+di) for di in range(num_channels)] from di on:
\* the planes decoded, and the keys asked of the decoder, up to the first failure
decode(filename, i, di, num_channels) ==
    IF di >= num_channels THEN [ok |-> TRUE, planes |-> <<>>, keys |-> <<>>]
    ELSE LET a == asarray(filename, i + di)
         IN IF ~a.ok THEN [ok |-> FALSE, planes |-> <<>>, keys |-> <<i + di>>]
            ELSE LET r == decode(filename, i, di + 1, num_channels)
                 IN [ok |-> r.ok, planes |-> <<a.value>> \o r.planes,
                     keys |-> <<i + di>> \o r.keys]

\* TifImageHandle.get(i): the outcome, with the keys asked of the decoder
get(h, i) ==
    LET N == shape(h)[1]
    IN IF ~in_bound(i, N)
       THEN [ok |-> FALSE, exc |-> "IndexError", at |-> "get", keys |-> <<>>]
       ELSE IF ndim(h) = 4
            THEN LET num_channels == shape(h)[4]
                     d == decode(h.filename, i * num_channels, 0, num_channels)
                 IN IF d.ok
                    THEN [ok |-> TRUE, value |-> stack(d.planes), keys |-> d.keys]
                    ELSE [ok |-> FALSE, exc |-> "IndexError", at |-> "asarray",
                          keys |-> d.keys]
            ELSE LET a == asarray(h.filename, i)
                 IN IF a.ok
                    THEN [ok |-> TRUE, value |-> a.value, keys |-> <<i>>]
                    ELSE [ok |-> FALSE, exc |-> "IndexError", at |-> "asarray",
                          keys |-> <<i>>]

RECURSIVE iter_from(_, _, _)
\* the generator of __iter__ run over the frame numbers is: the frames it
\* yields, and whether it ended by exhaustion (ok) or by get() raising
iter_from(h, sl, is) ==
    IF is = <<>> THEN [ok |-> TRUE, frames |-> <<>>]
    ELSE LET g == get(h, is[1])
         IN IF ~g.ok THEN [ok |-> FALSE, frames |-> <<>>]
            ELSE LET r == iter_from(h, sl, Tail(is))
                 IN [ok |-> r.ok,
                     frames |-> <<ApplySlices(g.value, Tail(sl))>> \o r.frames]

\* ImageHandle.__iter__, run to its end, of a handle with slices sl
iter(h, sl) ==
    LET r == indices(sl[1], shape(h)[1])
    IN iter_from(h, sl, range(r[1], r[2], r[3]))

(***************************************************************************)
(* imread.                                                                 *)
(***************************************************************************)
\* the eager reader of a format (_tif.read, imageio.imread, ...): the whole
\* series decoded, in the file's native axis order
eager_read(filename) ==
    LET s == SeriesShape(filename)
        n == Len(s)
        plane(idx) == IF n = 2 THEN 0
                      ELSE IF n = 3 THEN idx[1]
                      ELSE idx[1] * s[2] + idx[2]
    IN [shape |-> s,
        val |-> [idx \in IndexSet(s) |-> Pixel(plane(idx), idx[n - 1], idx[n])]]

\* np.transpose(data, axes) for 0-based axes
transpose(data, axes) ==
    LET sh == [k \in 1..Len(axes) |-> data.shape[axes[k] + 1]]
    IN [shape |-> sh,
        val |-> [idx \in IndexSet(sh) |->
                    data.val[[a \in 1..Len(axes) |->
                                 idx[CHOOSE k \in 1..Len(axes) : axes[k] + 1 = a]]]]]

\* data[:, :, :, channel] of a 4-dimensional array
take_channel(data, channel) ==
    LET sh == Front(data.shape)
        C == data.shape[4]
    IN IF channel >= -C /\ channel < C
       THEN [ok |-> TRUE,
             value |-> [shape |-> sh,
                        val |-> [idx \in IndexSet(sh) |->
                                    data.val[idx \o <<channel % C>>]]]]
       ELSE [ok |-> FALSE, exc |-> "IndexError", at |-> "channel"]

\* data[i] along axis 0
element(data, i) ==
    LET sh == Tail(data.shape)
    IN [shape |-> sh, val |-> [idx \in IndexSet(sh) |-> data.val[<<i>> \o idx]]]

LazyReaders == {"tif"}

EagerReaders == {"tif", "tiff", "png", "jpg", "nd2", "avi"}

\* imread(filepath, lazy, channel): the heap after it and its outcome
imread(hs, ls, filepath, lazy, channel) ==
    LET ext == filepath[Len(filepath)]
        same(r) == [handles |-> hs, lists |-> ls, res |-> r]
    IN IF Len(filepath) < 2
       THEN same([ok |-> FALSE, exc |-> "ValueError", at |-> "imread"])
       ELSE IF lazy
       THEN (IF ext \in LazyReaders
             THEN LET c == init(hs, ls, filepath, channel)
                  IN [handles |-> c.handles, lists |-> c.lists,
                      res |-> [ok |-> TRUE, value |-> c.id]]
             ELSE same([ok |-> FALSE, exc |-> "TypeError", at |-> "read_function"]))
       ELSE IF ext \notin EagerReaders
       THEN same([ok |-> FALSE, exc |-> "NotImplementedError", at |-> "imread"])
       ELSE LET raw == eager_read(filepath)
                data == IF Len(raw.shape) = 4
                        THEN transpose(raw, <<0, 2, 3, 1>>) ELSE raw
            IN IF channel = None THEN same([ok |-> TRUE, value |-> data])
               ELSE IF Len(data.shape) = 4
               THEN same(take_channel(data, channel[1]))
               ELSE same([ok |-> FALSE, exc |-> "NotImplementedError", at |-> "channel"])

NoCall == [op |-> "none"]

(***************************************************************************)
(* The operations as actions.  Every action records the call in last.      *)
(* imread neither reads nor changes the handles already open; a session    *)
(* is explored from one imread at a time (no handle is open when it runs). *)
(***************************************************************************)
Imread(filepath, lazy, channel) ==
    /\ Live = {}
    /\ LET r == imread(handles, lists, filepath, lazy, channel)
       IN /\ handles' = r.handles
          /\ lists' = r.lists
          /\ last' = [op |-> "imread", filepath |-> filepath, lazy |-> lazy,
                      channel |-> channel, res |-> r.res]

\* obj = self.copy()
Copy(h) ==
    /\ h \in Live
    /\ HasRoom
    /\ LET c == copy(handles, lists, h)
       IN /\ handles' = c.handles
          /\ lists' = c.lists
          /\ last' = [op |-> "copy", h |-> h, res |-> [ok |-> TRUE, value |-> c.id]]

\* self[val] for a slice val
GetItemSlice(h, val) ==
    /\ h \in Live
    /\ HasRoom
    /\ LET r == getitem_slice(handles, lists, h, val)
       IN /\ handles' = r.handles
          /\ lists' = r.lists
          /\ last' = [op |-> "getitem_slice", h |-> h, val |-> val, res |-> r.res]

\* self[val] for a tuple val of slices
GetItemTuple(h, val) ==
    /\ h \in Live
    /\ HasRoom
    /\ LET r == getitem_tuple(handles, lists, h, val)
       IN /\ handles' = r.handles
          /\ lists' = r.lists
          /\ last' = [op |-> "getitem_tuple", h |-> h, val |-> val, res |-> r.res]

\* h.slices[k] = val by the handle's user, k a 0-based position in range
Assign(h, k, val) ==
    /\ h \in Live
    /\ k \in 0..(Len(SlicesOf(h)) - 1)
    /\ lists' = Put(lists, handles[h].slices, Put(SlicesOf(h), k + 1, val))
    /\ last' = [op |-> "assign", h |-> h, k |-> k, val |-> val]
    /\ UNCHANGED handles

\* the last reference to a handle goes away
Drop(h) ==
    /\ h \in Live
    /\ handles' = Remove(handles, h)
    /\ lists' = Collect(Remove(handles, h), lists)
    /\ last' = [op |-> "drop", h |-> h]

\* self.get(i), also reached as self[i]
Get(h, i) ==
    /\ h \in Live
    /\ last' = [op |-> "get", h |-> h, i |-> i, res |-> get(handles[h], i)]
    /\ UNCHANGED <<handles, lists>>

\* list(self): __iter__ run to its end
Iterate(h) ==
    /\ h \in Live
    /\ last' = [op |-> "iter", h |-> h, res |-> iter(handles[h], SlicesOf(h))]
    /\ UNCHANGED <<handles, lists>>

\* self.slice_shape
SliceShape(h) ==
    /\ h \in Live
    /\ last' = [op |-> "slice_shape", h |-> h,
                res |-> slice_shape(handles[h], SlicesOf(h))]
    /\ UNCHANGED <<handles, lists>>

\* len(self)
Length(h) ==
    /\ h \in Live
    /\ last' = [op |-> "len", h |-> h,
                res |-> slice_shape(handles[h], SlicesOf(h))[1]]
    /\ UNCHANGED <<handles, lists>>

InitEmpty ==
    /\ handles = <<>>
    /\ lists = <<>>
    /\ last = NoCall

\* tuples of at most n entries drawn from S
Tuples(S, n) == UNION {[1..k -> S] : k \in 0..n}

(***************************************************************************)
(* SpecHandle: indexing, copying and mutating handles of the 2D file, with *)
(* tuples of up to ndim + 1 entries.                                       *)
(***************************************************************************)
IndexSlices ==
    {DefaultSlice, Slice(Some(1), None, None), Slice(None, None, Some(-1))}

NextHandle ==
    \/ Imread(Tif2D, TRUE, None)
    \/ \E h \in Live : Copy(h)
    \/ \E h \in Live, s \in IndexSlices : GetItemSlice(h, s)
    \/ \E h \in Live :
          \E t \in Tuples(IndexSlices, Len(SlicesOf(h)) + 1) : GetItemTuple(h, t)
    \/ \E h \in Live, k \in 0..1, s \in IndexSlices : Assign(h, k, s)
    \/ \E h \in Live : Drop(h)

SpecHandle == InitEmpty /\ [][NextHandle]_vars

(***************************************************************************)
(* SpecRead: imread in both modes on every path, and get, iteration and    *)
(* slice_shape on handles narrowed by indexing.                            *)
(***************************************************************************)
ReadSlices == {DefaultSlice, Slice(Some(1), None, Some(-1))}

Paths == {Tif2D, Tif3D, Tif4D, Tiff3D, Png2D, Bin, NoExt}

ChannelArgs == {None} \cup {Some(c) : c \in 0..(Channels - 1)}

\* frame numbers on both sides of the bound of get
FrameArgs(h) == LET N == shape(handles[h])[1] IN (-(N + 1))..(N + 1)

NextRead ==
    \/ \E f \in Paths, lazy \in BOOLEAN, c \in ChannelArgs : Imread(f, lazy, c)
    \/ \E h \in Live : \E i \in FrameArgs(h) : Get(h, i)
    \/ \E h \in Live : Iterate(h)
    \/ \E h \in Live : SliceShape(h)
    \/ \E h \in Live : Length(h)
    \/ \E h \in Live, s \in ReadSlices : GetItemSlice(h, s)
    \/ \E h \in Live :
          \E t \in Tuples(ReadSlices, Min({MaxTuple, Len(SlicesOf(h))})) :
              GetItemTuple(h, t)
    \/ \E h \in Live : Drop(h)

SpecRead == InitEmpty /\ [][NextRead]_vars

(***************************************************************************)
(* SpecSlice: slice_length applied to every slice and length in bounds.    *)
(***************************************************************************)
InitSlice ==
    /\ handles = <<>>
    /\ lists = <<>>
    /\ \E s \in AllSlices, n \in 0..MaxN :
           last = [op |-> "pending", s |-> s, n |-> n]

SliceLengthCall ==
    /\ last.op = "pending"
    /\ last' = [op |-> "slice_length", s |-> last.s, n |-> last.n,
                res |-> slice_length_call(last.s, last.n)]
    /\ UNCHANGED <<handles, lists>>

NextSlice == SliceLengthCall

SpecSlice == InitSlice /\ [][NextSlice]_vars

\* C1: for every n >= 0 and every slice with a nonzero (or None) step,
\* slice_length(s, n) is the number of indices range(*s.indices(n)) produces.
C1_SliceLengthIsRangeCount ==
    (last.op = "slice_length" /\ last.s.step # Some(0)) =>
        /\ last.res.ok
        /\ LET r == indices(last.s, last.n)
           IN last.res.value = Len(range(r[1], r[2], r[3]))

\* a negative-step slice with out-of-range bounds that selects several indices
C1_Witness ==
    /\ last.op = "slice_length"
    /\ last.s = Slice(Some(MaxIdx), Some(-MaxIdx), Some(-2))
    /\ last.n = 3
    /\ last.res.ok
    /\ last.res.value = 2

(***************************************************************************)
(* Claims about indexing, checked under SpecHandle.                        *)
(***************************************************************************)
SliceA == Slice(Some(1), None, None)

SliceB == Slice(None, None, Some(-1))

\* C2: no step changes the slices of a handle that stays alive, unless the
\* step is the user's assignment into that very handle's list: indexing,
\* copying and assignments into other (derived) handles leave it as it was.
C2_ParentSlicesKept ==
    [][\A h \in Live \cap DOMAIN handles' :
          (~(last'.op = "assign" /\ last'.h = h)) =>
              lists'[handles'[h].slices] = lists[handles[h].slices]]_vars

\* handle 2, derived while handle 1 was alive, was assigned into and differs
\* from handle 1, which still carries what it carried
C2_Witness ==
    /\ last.op = "assign"
    /\ last.h = 2
    /\ Live = {1, 2}
    /\ SlicesOf(2) = <<SliceA, SliceB>>
    /\ SlicesOf(1) = <<SliceB, DefaultSlice>>

\* C3 (as claimed): for every handle h and slices a, b, the handles h[a][:, b]
\* and h[a, b] have equal slice_shape and yield the same frames.
C3_ChainedEqualsTuple ==
    \A h \in Live : \A a \in IndexSlices, b \in IndexSlices :
        LET m == getitem_slice(handles, lists, h, a)
            x == getitem_tuple(m.handles, m.lists, m.res.value, <<DefaultSlice, b>>)
            y == getitem_tuple(handles, lists, h, <<a, b>>)
            hx == x.handles[x.res.value]
            hy == y.handles[y.res.value]
            sx == x.lists[hx.slices]
            sy == y.lists[hy.slices]
        IN /\ slice_shape(hx, sx) = slice_shape(hy, sy)
           /\ iter(hx, sx) = iter(hy, sy)

\* C4: h[t] for a tuple t of at most ndim slices returns a handle whose slices
\* are t[i] wherever t[i] is not the default slice, and h's slices (as they
\* were before the call) everywhere else.
C4_TupleOverwritesNonDefault ==
    [][(last'.op = "getitem_tuple" /\ Len(last'.val) <= ndim(handles[last'.h])) =>
          /\ last'.res.ok
          /\ LET t == last'.val
                 old == lists[handles[last'.h].slices]
                 new == lists'[handles'[last'.res.value].slices]
             IN /\ Len(new) = Len(old)
                /\ \A i \in 1..Len(old) :
                      new[i] = IF i <= Len(t) /\ t[i] # DefaultSlice
                               THEN t[i] ELSE old[i]]_vars

\* h[:, 1:] on a handle narrowed to [::-1, ::-1] keeps dimension 0 and
\* overwrites dimension 1
C4_Witness ==
    /\ last.op = "getitem_tuple"
    /\ last.res.ok
    /\ last.val = <<DefaultSlice, SliceA>>
    /\ last.h \in Live
    /\ SlicesOf(last.h) = <<SliceB, SliceB>>
    /\ SlicesOf(last.res.value) = <<SliceB, SliceA>>

\* C5 (as claimed): h[s] for a slice s is a handle whose slices[0] is s and
\* whose other slices are h's.
C5_SliceKeepsOtherDims ==
    (last.op = "getitem_slice" /\ last.res.ok) =>
        LET new == SlicesOf(last.res.value)
            old == SlicesOf(last.h)
        IN /\ new[1] = last.val
           /\ \A j \in 2..Len(old) : new[j] = old[j]

\* C9 (as claimed): every handle has len(slices) = ndim, and indexing with a
\* tuple of more than ndim entries fails.
C9_LongTupleFails ==
    /\ \A h \in Live : Len(SlicesOf(h)) = ndim(handles[h])
    /\ (last.op = "getitem_tuple" /\ Len(last.val) > Len(SlicesOf(last.h))) =>
           ~last.res.ok

\* the 0-based positions at or beyond n where the tuple is not the default slice
Excess(t, n) == {i \in n..(Len(t) - 1) : t[i + 1] # DefaultSlice}

\* C9 (amended): every handle has len(slices) = ndim; indexing with a tuple
\* fails (IndexError) exactly when the tuple has a non-default entry at a
\* position >= ndim, and a tuple whose entries beyond ndim are all default
\* returns a handle.
C9_LenSlicesIsNdim ==
    /\ \A h \in Live : Len(SlicesOf(h)) = ndim(handles[h])
    /\ last.op = "getitem_tuple" =>
          /\ last.res.ok <=> Excess(last.val, ndim(handles[last.h])) = {}
          /\ ~last.res.ok => last.res.exc = "IndexError"
          /\ last.res.ok => last.res.value \in Live \ {last.h}

\* a tuple of ndim + 1 entries whose last entry narrows has failed
C9_Witness ==
    /\ last.op = "getitem_tuple"
    /\ last.val = <<DefaultSlice, DefaultSlice, SliceA>>
    /\ ~last.res.ok
    /\ \A h \in Live : Len(SlicesOf(h)) = 2

(***************************************************************************)
(* Claims about reading, checked under SpecRead.                           *)
(***************************************************************************)
\* C6: get(i) on a TIFF handle with N = shape[0] raises IndexError from its
\* bound check, before asking the decoder for any plane, whenever i <= -N or
\* i > N; the bound check rejects no i with -N < i <= N.
C6_GetBound ==
    last.op = "get" =>
        LET N == shape(handles[last.h])[1]
            rejected == ~last.res.ok /\ last.res.at = "get"
        IN /\ (last.i <= -N \/ last.i > N) =>
                 (rejected /\ last.res.exc = "IndexError" /\ last.res.keys = <<>>)
           /\ (-N < last.i /\ last.i <= N) => ~rejected

\* get(N) on the 3D file passed the bound check and reached the decoder
C6_Witness ==
    /\ last.op = "get"
    /\ handles[last.h].filename = Tif3D
    /\ last.i = Frames
    /\ ~last.res.ok
    /\ last.res.at = "asarray"
    /\ last.res.keys = <<Frames>>

\* C7 (as claimed): on a lazily opened file of rank 2 or 3, get(i) for every
\* i in range(shape[0]) returns element i of the eagerly read array.
C7_GetEqualsEager ==
    (/\ last.op = "get"
     /\ ndim(handles[last.h]) < 4
     /\ last.i \in 0..(shape(handles[last.h])[1] - 1)) =>
        LET e == imread(<<>>, <<>>, handles[last.h].filename, FALSE, None)
        IN /\ last.res.ok
           /\ e.res.ok
           /\ last.res.value = element(e.res.value, last.i)

\* C8 (as claimed): imread(path, lazy=True) on a path whose extension is not
\* registered for lazy reading raises NotImplementedError and makes no handle.
C8_LazyUnregistered ==
    (/\ last.op = "imread"
     /\ last.lazy
     /\ Len(last.filepath) >= 2
     /\ last.filepath[Len(last.filepath)] \notin LazyReaders) =>
        /\ ~last.res.ok
        /\ last.res.exc = "NotImplementedError"
        /\ Live = {}

\* C10 (as claimed): iterating a TIFF handle of rank 3 or 4 yields exactly
\* slice_shape[0] frames, each of shape slice_shape[1:].
C10_SliceShapeDescribesIter ==
    (last.op = "iter" /\ ndim(handles[last.h]) \in {3, 4}) =>
        LET ss == slice_shape(handles[last.h], SlicesOf(last.h))
        IN /\ last.res.ok
           /\ Len(last.res.frames) = ss[1]
           /\ \A k \in 1..Len(last.res.frames) :
                 last.res.frames[k].shape = Tail(ss)

====
